---------------------------- MODULE Spec2Model ----------------------------
(***************************************************************************)
(* The WebM chunker of webmetro (src/chunk.rs): WebmChunker::poll turns a  *)
(* stream of EBML events into Headers / ClusterHead / ClusterBody chunks.  *)
(*                                                                         *)
(* One step of the model is one iteration of the `loop` in poll: it polls  *)
(* the event source at most once and either returns from poll (ret is the  *)
(* value returned) or goes round the loop again (ret.kind = "Continue").   *)
(*                                                                         *)
(* A byte buffer is modelled as the sequence of the elements encoded into  *)
(* it; its length in bytes is the sum of the elements' encoded sizes.      *)
(* u64 values are kept modulo U64Modulus = 2^U64Bits.                      *)
(***************************************************************************)
EXTENDS Integers, Sequences, FiniteSets

VARIABLES
    state,              \* WebmChunker.state : ChunkerState
    buffer_size_limit,  \* WebmChunker.buffer_size_limit : Option<usize>
    events,             \* every result source.poll_event() has returned so far
    out,                \* every chunk poll has returned so far, in order
    ret                 \* what the last loop iteration of poll did

vars == <<state, buffer_size_limit, events, out, ret>>

\* The relay command (src/commands/relay.rs): the registry of channels that
\* run shares between the requests it serves.  A Channel is known by its
\* identity, its index in channels.
VARIABLES
    channel_map,       \* run's channel_map: name -> weak reference to a Channel
    channel_map_lock,  \* the request holding channel_map's Mutex
    channels,          \* the name of every Channel created so far
    requests           \* each request's position and the handle it holds

relay_vars == <<channel_map, channel_map_lock, channels, requests>>

----------------------------------------------------------------------------
(* Bounds of the model *)

\* source.poll_event() is called at most MaxEvents times
MaxEvents == 4

\* width of the model's u64
U64Bits == 2

\* the soft limit with_soft_limit is given, in bytes (0 is tried too)
SoftLimit == 12

\* the requests the relay serves at the same time
MaxRequests == 3

\* Channel::new is called at most MaxChannels times
MaxChannels == 3

----------------------------------------------------------------------------
(* u64 / i16 arithmetic *)

U64Modulus == 2 ^ U64Bits

U64Max == U64Modulus - 1

\* a + b in u64: the wrapped value (release build)
AddU64(a, b) == (a + b) % U64Modulus

\* a + b overflows u64 (a debug build panics)
AddOverflows(a, b) == a + b >= U64Modulus

\* a - b in u64: the wrapped value (release build)
SubU64(a, b) == (a - b + U64Modulus) % U64Modulus

\* a - b underflows u64 (a debug build panics)
SubOverflows(a, b) == a < b

\* `timecode as u64` for timecode : i16 (sign extension)
I16AsU64(timecode) == IF timecode < 0 THEN U64Modulus + timecode ELSE timecode

----------------------------------------------------------------------------
(* WebmElement *)

Element(kind, timecode, flags) ==
    [kind |-> kind, timecode |-> timecode, flags |-> flags]

EbmlHead == Element("EbmlHead", 0, 0)
Segment == Element("Segment", 0, 0)
Info == Element("Info", 0, 0)
Void == Element("Void", 0, 0)
Unknown == Element("Unknown", 0, 0)
Cluster == Element("Cluster", 0, 0)
Tracks == Element("Tracks", 0, 0)
Timecode(timecode) == Element("Timecode", timecode, 0)
SimpleBlock(flags, timecode) == Element("SimpleBlock", timecode, flags)

\* the Timecode values the source yields
TimecodeValues == {1, U64Max}

\* the SimpleBlocks the source yields: a keyframe at the cluster's start,
\* two later frames, and a frame from before the cluster's start
SimpleBlocks ==
    { SimpleBlock(128, 0), SimpleBlock(0, 1), SimpleBlock(0, 2),
      SimpleBlock(0, -1) }

StrippedElements == {Info, Void, Unknown}

RestartElements == {EbmlHead, Segment}

Elements ==
    StrippedElements \cup RestartElements \cup {Cluster, Tracks}
        \cup {Timecode(t) : t \in TimecodeValues} \cup SimpleBlocks

\* bytes encode_webm_element writes for an element
EncodedSize(element) ==
    CASE element.kind = "EbmlHead" -> 8
      [] element.kind = "Segment" -> 5
      [] element.kind = "Cluster" -> 5
      [] element.kind = "Timecode" -> 10
      [] element.kind = "SimpleBlock" -> 7
      [] element.kind = "Tracks" -> 20
      [] OTHER -> 2

RECURSIVE BufferLen(_)
\* Vec<u8>::len() of a buffer holding the encoded elements
BufferLen(buffer) ==
    IF buffer = <<>> THEN 0
    ELSE EncodedSize(Head(buffer)) + BufferLen(Tail(buffer))

----------------------------------------------------------------------------
(* Option<usize> *)

None == [some |-> FALSE, value |-> 0]

Some(limit) == [some |-> TRUE, value |-> limit]

\* WebmChunker::with_soft_limit
with_soft_limit(limit) == Some(limit)

----------------------------------------------------------------------------
(* ClusterHead *)

\* mutant of update_timecode: start is moved but end is left where it was
update_timecode_keeps_end(cluster_head, timecode) ==
    LET bytes == <<Cluster, Timecode(timecode)>>
    IN  [cluster_head EXCEPT
            !.start = timecode,
            !.bytes = bytes,
            !.bytes_used = BufferLen(bytes)]

\* update_timecode, but start is left as it was
update_timecode_keeps_start(cluster_head, timecode) ==
    LET delta == SubU64(cluster_head.end, cluster_head.start)
        bytes == <<Cluster, Timecode(timecode)>>
    IN  [cluster_head EXCEPT
            !.end = AddU64(cluster_head.start, delta),
            !.bytes = bytes,
            !.bytes_used = BufferLen(bytes)]

\* update_timecode, but the scratch is not written again
update_timecode_stale_scratch(cluster_head, timecode) ==
    LET delta == SubU64(cluster_head.end, cluster_head.start)
    IN  [cluster_head EXCEPT
            !.start = timecode,
            !.end = AddU64(timecode, delta)]

\* ClusterHead::update_timecode, with wrapping arithmetic
update_timecode(cluster_head, timecode) ==
    LET delta == SubU64(cluster_head.end, cluster_head.start)
        bytes == <<Cluster, Timecode(timecode)>>
    IN  [cluster_head EXCEPT
            !.start = timecode,
            !.end = AddU64(timecode, delta),
            !.bytes = bytes,
            !.bytes_used = BufferLen(bytes)]

\* the arithmetic of update_timecode overflows
update_timecode_overflows(cluster_head, timecode) ==
    \/ SubOverflows(cluster_head.end, cluster_head.start)
    \/ AddOverflows(timecode,
                    SubU64(cluster_head.end, cluster_head.start))

\* ClusterHead::new
ClusterHead_new(timecode) ==
    update_timecode(
        [keyframe |-> FALSE, start |-> 0, end |-> 0,
         bytes |-> <<>>, bytes_used |-> 0],
        timecode)

\* ClusterHead::observe_simpleblock_timecode, with wrapping arithmetic
observe_simpleblock_timecode(cluster_head, timecode) ==
    LET absolute_timecode == AddU64(cluster_head.start, I16AsU64(timecode))
    IN  IF absolute_timecode > cluster_head.start
        THEN [cluster_head EXCEPT !.end = absolute_timecode]
        ELSE cluster_head

\* the arithmetic of observe_simpleblock_timecode overflows
observe_simpleblock_timecode_overflows(cluster_head, timecode) ==
    AddOverflows(cluster_head.start, I16AsU64(timecode))

\* impl AsRef<[u8]> for ClusterHead
ClusterHead_as_ref(cluster_head) == cluster_head.bytes

----------------------------------------------------------------------------
(* Chunk *)

NoHead == ClusterHead_new(0)

Chunk_Headers(bytes) ==
    [kind |-> "Headers", bytes |-> bytes, head |-> NoHead]

Chunk_ClusterHead(cluster_head) ==
    [kind |-> "ClusterHead", bytes |-> <<>>, head |-> cluster_head]

Chunk_ClusterBody(bytes) ==
    [kind |-> "ClusterBody", bytes |-> bytes, head |-> NoHead]

\* impl AsRef<[u8]> for Chunk
Chunk_as_ref(chunk) ==
    IF chunk.kind = "ClusterHead" THEN ClusterHead_as_ref(chunk.head)
    ELSE chunk.bytes

NoChunk == [kind |-> "None", bytes |-> <<>>, head |-> NoHead]

----------------------------------------------------------------------------
(* ChunkerState *)

ChunkerState(kind, cluster_head, buffer, new_header) ==
    [kind |-> kind, cluster_head |-> cluster_head, buffer |-> buffer,
     new_header |-> new_header]

BuildingHeader(buffer) == ChunkerState("BuildingHeader", NoHead, buffer, <<>>)

BuildingCluster(cluster_head, buffer) ==
    ChunkerState("BuildingCluster", cluster_head, buffer, <<>>)

EmittingClusterBody(body) ==
    ChunkerState("EmittingClusterBody", NoHead, body, <<>>)

EmittingClusterBodyBeforeNewHeader(body, new_header) ==
    ChunkerState("EmittingClusterBodyBeforeNewHeader", NoHead, body,
                 new_header)

EmittingFinalClusterBody(body) ==
    ChunkerState("EmittingFinalClusterBody", NoHead, body, <<>>)

End == ChunkerState("End", NoHead, <<>>, <<>>)

\* poll unwound with a panic: the chunker is never polled again
Panicked == ChunkerState("Panicked", NoHead, <<>>, <<>>)

----------------------------------------------------------------------------
(* encode *)

\* limit_reached, but a buffer of exactly limit bytes still takes an element
limit_reached_above_limit(buffer, limit) ==
    limit.some /\ limit.value < BufferLen(buffer)

\* the soft limit check of encode: the buffer is already at the limit
limit_reached(buffer, limit) == limit.some /\ limit.value <= BufferLen(buffer)

\* mutant of encode: a hard limit, checked against the length the buffer
\* would have after the write
encode_hard_limit(element, buffer, limit) ==
    IF limit.some /\ limit.value < BufferLen(buffer) + EncodedSize(element)
    THEN [ok |-> FALSE, buffer |-> buffer]
    ELSE [ok |-> TRUE, buffer |-> Append(buffer, element)]

\* encode: Ok with the element appended, or Err(ResourcesExceeded) with the
\* buffer as it was
encode(element, buffer, limit) ==
    IF limit_reached(buffer, limit)
    THEN [ok |-> FALSE, buffer |-> buffer]
    ELSE [ok |-> TRUE, buffer |-> Append(buffer, element)]

----------------------------------------------------------------------------
(* The event source and poll's results *)

SourceResult(kind, element) == [kind |-> kind, element |-> element]

Ready(element) == SourceResult("Ready", element)

\* Ok(Async::Ready(None)), Ok(Async::NotReady) and Err(e) of the source
ReadyNone == SourceResult("ReadyNone", Void)
NotReady == SourceResult("NotReady", Void)
SourceErr == SourceResult("Err", Void)

\* the source has returned Ready(None)
SourceEnded == \E i \in 1..Len(events) : events[i] = ReadyNone

\* source.poll_event(): a finite sequence of elements, then Ready(None)
poll_event(result) ==
    /\ Len(events) < MaxEvents
    /\ IF SourceEnded THEN result = ReadyNone
       ELSE result \in {ReadyNone, NotReady, SourceErr}
                \cup {Ready(e) : e \in Elements}
    /\ events' = Append(events, result)

Return(kind, chunk, error) == [kind |-> kind, chunk |-> chunk, error |-> error]

\* the loop goes round again without returning
Continue == Return("Continue", NoChunk, "")

\* return Ok(Async::Ready(Some(chunk)))
ReturnChunk(chunk) == Return("Chunk", chunk, "")

\* return Ok(Async::Ready(None)), Ok(Async::NotReady), Err(e)
ReturnNone == Return("ReadyNone", NoChunk, "")
ReturnNotReady == Return("NotReady", NoChunk, "")
ReturnErr(error) == Return("Err", NoChunk, error)

\* poll did not return: it panicked
ReturnPanic == Return("Panic", NoChunk, "")

\* before the first call of poll
NotPolled == Return("NotPolled", NoChunk, "")

\* the iteration returns the chunk and moves to new_state
Emit(chunk, new_state) ==
    /\ state' = new_state
    /\ out' = Append(out, chunk)
    /\ ret' = ReturnChunk(chunk)

\* mutant of Fail: the error is returned but the state is left as it was
Fail_StaysInState(error) ==
    /\ ret' = ReturnErr(error)
    /\ UNCHANGED <<state, out>>

\* the iteration returns Err(error) and moves to End
Fail(error) ==
    /\ state' = End
    /\ ret' = ReturnErr(error)
    /\ UNCHANGED out

----------------------------------------------------------------------------
(* Init: WebmStream::chunk_webm, then with_soft_limit or not *)

Limits == {None, with_soft_limit(0), with_soft_limit(SoftLimit)}

\* the names requests ask for: the String of path!("live" / String)
ChannelNames == {"a", "b"}

Requests == 1..MaxRequests

\* no Channel, no request
NoChannel == 0
NoRequest == 0

\* a request that has not reached the channel filter
Idle == [pc |-> "idle", name |-> "", channel |-> NoChannel]

\* run: let channel_map = Arc::new(Mutex::new(WeakValueHashMap::new()))
RelayInit ==
    /\ channel_map = [name \in ChannelNames |-> NoChannel]
    /\ channel_map_lock = NoRequest
    /\ channels = <<>>
    /\ requests = [r \in Requests |-> Idle]

Init ==
    /\ state = BuildingHeader(<<>>)
    /\ buffer_size_limit \in Limits
    /\ events = <<>>
    /\ out = <<>>
    /\ ret = NotPolled
    /\ RelayInit


----------------------------------------------------------------------------
(* WebmChunker::poll, one action per arm of its two matches *)

\* BuildingHeader, source Err(passthru): return Err(passthru.into())
BuildingHeader_Err ==
    /\ state.kind = "BuildingHeader"
    /\ poll_event(SourceErr)
    /\ ret' = ReturnErr("Source")
    /\ UNCHANGED <<state, out, buffer_size_limit, relay_vars>>

\* BuildingHeader, source NotReady: return Ok(Async::NotReady)
BuildingHeader_NotReady ==
    /\ state.kind = "BuildingHeader"
    /\ poll_event(NotReady)
    /\ ret' = ReturnNotReady
    /\ UNCHANGED <<state, out, buffer_size_limit, relay_vars>>

\* mutant of BuildingHeader_None: the buffered header is flushed at the
\* end of the stream, as the final cluster is
BuildingHeader_None_FlushesHeader ==
    /\ state.kind = "BuildingHeader"
    /\ poll_event(ReadyNone)
    /\ Emit(Chunk_Headers(state.buffer), End)
    /\ UNCHANGED <<buffer_size_limit, relay_vars>>

\* BuildingHeader, source Ready(None): return Ok(Async::Ready(None))
BuildingHeader_None ==
    /\ state.kind = "BuildingHeader"
    /\ poll_event(ReadyNone)
    /\ ret' = ReturnNone
    /\ UNCHANGED <<state, out, buffer_size_limit, relay_vars>>

\* BuildingHeader, Cluster: emit the header buffer, start a cluster
BuildingHeader_Cluster ==
    /\ state.kind = "BuildingHeader"
    /\ poll_event(Ready(Cluster))
    /\ Emit(Chunk_Headers(state.buffer),
            BuildingCluster(ClusterHead_new(0), <<>>))
    /\ UNCHANGED <<buffer_size_limit, relay_vars>>

\* BuildingHeader, Info / Void / Unknown: dropped
BuildingHeader_Stripped ==
    /\ state.kind = "BuildingHeader"
    /\ \E element \in StrippedElements : poll_event(Ready(element))
    /\ ret' = Continue
    /\ UNCHANGED <<state, out, buffer_size_limit, relay_vars>>

\* BuildingHeader, any other element: encode it into the header buffer
BuildingHeader_Other ==
    /\ state.kind = "BuildingHeader"
    /\ \E element \in Elements \ (StrippedElements \cup {Cluster}) :
        /\ poll_event(Ready(element))
        /\ LET encoded == encode(element, state.buffer, buffer_size_limit)
           IN  IF encoded.ok
               THEN /\ state' = BuildingHeader(encoded.buffer)
                    /\ ret' = Continue
                    /\ UNCHANGED out
               ELSE Fail("ResourcesExceeded")
    /\ UNCHANGED <<buffer_size_limit, relay_vars>>

\* BuildingCluster, source Err(passthru): return Err(passthru.into())
BuildingCluster_Err ==
    /\ state.kind = "BuildingCluster"
    /\ poll_event(SourceErr)
    /\ ret' = ReturnErr("Source")
    /\ UNCHANGED <<state, out, buffer_size_limit, relay_vars>>

\* BuildingCluster_NotReady, but the pending cluster is dropped
BuildingCluster_NotReady_Resets ==
    /\ state.kind = "BuildingCluster"
    /\ poll_event(NotReady)
    /\ ret' = ReturnNotReady
    /\ state' = BuildingCluster(ClusterHead_new(0), <<>>)
    /\ UNCHANGED <<out, buffer_size_limit, relay_vars>>

\* BuildingCluster, source NotReady: return Ok(Async::NotReady)
BuildingCluster_NotReady ==
    /\ state.kind = "BuildingCluster"
    /\ poll_event(NotReady)
    /\ ret' = ReturnNotReady
    /\ UNCHANGED <<state, out, buffer_size_limit, relay_vars>>

\* BuildingCluster, EbmlHead / Segment: the input restarts; emit the
\* cluster's head, keep its body and the new header's first element
BuildingCluster_Restart ==
    /\ state.kind = "BuildingCluster"
    /\ \E element \in RestartElements :
        /\ poll_event(Ready(element))
        /\ LET encoded == encode(element, <<>>, buffer_size_limit)
           IN  IF encoded.ok
               THEN Emit(Chunk_ClusterHead(state.cluster_head),
                         EmittingClusterBodyBeforeNewHeader(
                             state.buffer, encoded.buffer))
               ELSE Fail("ResourcesExceeded")
    /\ UNCHANGED <<buffer_size_limit, relay_vars>>

\* BuildingCluster, Cluster: emit the cluster's head, keep its body
BuildingCluster_Cluster ==
    /\ state.kind = "BuildingCluster"
    /\ poll_event(Ready(Cluster))
    /\ Emit(Chunk_ClusterHead(state.cluster_head),
            EmittingClusterBody(state.buffer))
    /\ UNCHANGED <<buffer_size_limit, relay_vars>>

\* BuildingCluster_Timecode, but the Timecode is written to the body too
BuildingCluster_Timecode_Encoded ==
    /\ state.kind = "BuildingCluster"
    /\ \E timecode \in TimecodeValues :
        /\ poll_event(Ready(Timecode(timecode)))
        /\ state' = BuildingCluster(
               update_timecode(state.cluster_head, timecode),
               Append(state.buffer, Timecode(timecode)))
    /\ ret' = Continue
    /\ UNCHANGED <<out, buffer_size_limit, relay_vars>>

\* BuildingCluster, Timecode(timecode): cluster_head.update_timecode
BuildingCluster_Timecode ==
    /\ state.kind = "BuildingCluster"
    /\ \E timecode \in TimecodeValues :
        /\ poll_event(Ready(Timecode(timecode)))
        /\ state' = BuildingCluster(
               update_timecode(state.cluster_head, timecode), state.buffer)
    /\ ret' = Continue
    /\ UNCHANGED <<out, buffer_size_limit, relay_vars>>

\* the same arm in a build with overflow checks, when the arithmetic of
\* update_timecode overflows: poll panics
BuildingCluster_Timecode_Panic ==
    /\ state.kind = "BuildingCluster"
    /\ \E timecode \in TimecodeValues :
        /\ update_timecode_overflows(state.cluster_head, timecode)
        /\ poll_event(Ready(Timecode(timecode)))
    /\ state' = Panicked
    /\ ret' = ReturnPanic
    /\ UNCHANGED <<out, buffer_size_limit, relay_vars>>

\* block.flags & 0b10000000 != 0
keyframe_flag(flags) == (flags \div 128) % 2 = 1

\* mutant of observe_simpleblock: keyframe is assigned from each block,
\* so a later block without the flag clears it
observe_simpleblock_last_wins(cluster_head, block) ==
    observe_simpleblock_timecode(
        [cluster_head EXCEPT !.keyframe = keyframe_flag(block.flags)],
        block.timecode)

\* the cluster head after the SimpleBlock arm has looked at the block
observe_simpleblock(cluster_head, block) ==
    observe_simpleblock_timecode(
        IF keyframe_flag(block.flags)
        THEN [cluster_head EXCEPT !.keyframe = TRUE]
        ELSE cluster_head,
        block.timecode)

\* BuildingCluster, SimpleBlock: note keyframe and timecode, encode the block
BuildingCluster_SimpleBlock ==
    /\ state.kind = "BuildingCluster"
    /\ \E block \in SimpleBlocks :
        /\ poll_event(Ready(block))
        /\ LET encoded == encode(block, state.buffer, buffer_size_limit)
           IN  IF encoded.ok
               THEN /\ state' = BuildingCluster(
                           observe_simpleblock(state.cluster_head, block),
                           encoded.buffer)
                    /\ ret' = Continue
                    /\ UNCHANGED out
               ELSE Fail("ResourcesExceeded")
    /\ UNCHANGED <<buffer_size_limit, relay_vars>>

\* the same arm in a build with overflow checks, when the addition of
\* observe_simpleblock_timecode overflows: poll panics
BuildingCluster_SimpleBlock_Panic ==
    /\ state.kind = "BuildingCluster"
    /\ \E block \in SimpleBlocks :
        /\ observe_simpleblock_timecode_overflows(state.cluster_head,
                                                  block.timecode)
        /\ poll_event(Ready(block))
    /\ state' = Panicked
    /\ ret' = ReturnPanic
    /\ UNCHANGED <<out, buffer_size_limit, relay_vars>>

\* mutant of BuildingCluster_Stripped: the element falls through to the
\* arm of the other elements and is encoded into the body
BuildingCluster_Stripped_Encoded ==
    /\ state.kind = "BuildingCluster"
    /\ \E element \in StrippedElements :
        /\ poll_event(Ready(element))
        /\ LET encoded == encode(element, state.buffer, buffer_size_limit)
           IN  IF encoded.ok
               THEN /\ state' = BuildingCluster(state.cluster_head,
                                                encoded.buffer)
                    /\ ret' = Continue
                    /\ UNCHANGED out
               ELSE Fail("ResourcesExceeded")
    /\ UNCHANGED <<buffer_size_limit, relay_vars>>

\* BuildingCluster, Info / Void / Unknown: dropped
BuildingCluster_Stripped ==
    /\ state.kind = "BuildingCluster"
    /\ \E element \in StrippedElements : poll_event(Ready(element))
    /\ ret' = Continue
    /\ UNCHANGED <<state, out, buffer_size_limit, relay_vars>>

\* BuildingCluster, any other element: encode it into the body buffer
BuildingCluster_Other ==
    /\ state.kind = "BuildingCluster"
    /\ poll_event(Ready(Tracks))
    /\ LET encoded == encode(Tracks, state.buffer, buffer_size_limit)
       IN  IF encoded.ok
           THEN /\ state' = BuildingCluster(state.cluster_head,
                                            encoded.buffer)
                /\ ret' = Continue
                /\ UNCHANGED out
           ELSE Fail("ResourcesExceeded")
    /\ UNCHANGED <<buffer_size_limit, relay_vars>>

\* BuildingCluster, source Ready(None): flush the final cluster's head
BuildingCluster_None ==
    /\ state.kind = "BuildingCluster"
    /\ poll_event(ReadyNone)
    /\ Emit(Chunk_ClusterHead(state.cluster_head),
            EmittingFinalClusterBody(state.buffer))
    /\ UNCHANGED <<buffer_size_limit, relay_vars>>

\* mutant of EmitClusterBody: the body is dropped instead of emitted
EmitClusterBody_SkipsBody ==
    /\ state.kind = "EmittingClusterBody"
    /\ state' = BuildingCluster(ClusterHead_new(0), <<>>)
    /\ ret' = Continue
    /\ UNCHANGED <<out, events, buffer_size_limit, relay_vars>>

\* EmittingClusterBody: emit the body, build the next cluster
EmitClusterBody ==
    /\ state.kind = "EmittingClusterBody"
    /\ Emit(Chunk_ClusterBody(state.buffer),
            BuildingCluster(ClusterHead_new(0), <<>>))
    /\ UNCHANGED <<events, buffer_size_limit, relay_vars>>

\* mutant of EmitClusterBodyBeforeNewHeader: header building starts from
\* an empty buffer, losing the restart element
EmitClusterBodyBeforeNewHeader_FreshHeader ==
    /\ state.kind = "EmittingClusterBodyBeforeNewHeader"
    /\ Emit(Chunk_ClusterBody(state.buffer), BuildingHeader(<<>>))
    /\ UNCHANGED <<events, buffer_size_limit, relay_vars>>

\* EmittingClusterBodyBeforeNewHeader: emit the body, build the new header
EmitClusterBodyBeforeNewHeader ==
    /\ state.kind = "EmittingClusterBodyBeforeNewHeader"
    /\ Emit(Chunk_ClusterBody(state.buffer),
            BuildingHeader(state.new_header))
    /\ UNCHANGED <<events, buffer_size_limit, relay_vars>>

\* mutant of EmitFinalClusterBody: cluster building resumes, as after
\* EmittingClusterBody, instead of ending
EmitFinalClusterBody_Resumes ==
    /\ state.kind = "EmittingFinalClusterBody"
    /\ Emit(Chunk_ClusterBody(state.buffer),
            BuildingCluster(ClusterHead_new(0), <<>>))
    /\ UNCHANGED <<events, buffer_size_limit, relay_vars>>

\* EmittingFinalClusterBody: emit the body, end
EmitFinalClusterBody ==
    /\ state.kind = "EmittingFinalClusterBody"
    /\ Emit(Chunk_ClusterBody(state.buffer), End)
    /\ UNCHANGED <<events, buffer_size_limit, relay_vars>>

\* Ended, but End answers NotReady
Ended_NotReady ==
    /\ state.kind = "End"
    /\ ret' = ReturnNotReady
    /\ UNCHANGED <<state, out, events, buffer_size_limit, relay_vars>>

\* End: return Ok(Async::Ready(None))
Ended ==
    /\ state.kind = "End"
    /\ ret' = ReturnNone
    /\ UNCHANGED <<state, out, events, buffer_size_limit, relay_vars>>

Next ==
    \/ BuildingHeader_Err
    \/ BuildingHeader_NotReady
    \/ BuildingHeader_None
    \/ BuildingHeader_Cluster
    \/ BuildingHeader_Stripped
    \/ BuildingHeader_Other
    \/ BuildingCluster_Err
    \/ BuildingCluster_NotReady
    \/ BuildingCluster_Restart
    \/ BuildingCluster_Cluster
    \/ BuildingCluster_Timecode
    \/ BuildingCluster_Timecode_Panic
    \/ BuildingCluster_SimpleBlock
    \/ BuildingCluster_SimpleBlock_Panic
    \/ BuildingCluster_Stripped
    \/ BuildingCluster_Other
    \/ BuildingCluster_None
    \/ EmitClusterBody
    \/ EmitClusterBodyBeforeNewHeader
    \/ EmitFinalClusterBody
    \/ Ended

Spec == Init /\ [][Next]_vars

----------------------------------------------------------------------------
(* Reading the history: what the source has yielded, what poll has emitted *)

\* the step polls the source and gets result
Polled(result) == events' = Append(events, result)

\* the step polls the source and gets Ready(Some(element))
PolledElement(element) == Polled(Ready(element))

\* the last result the source returned
LastEvent == events[Len(events)]

RECURSIVE InputElements(_)
\* the elements among the source's results, in order
InputElements(results) ==
    IF results = <<>> THEN <<>>
    ELSE IF Head(results).kind = "Ready"
         THEN <<Head(results).element>> \o InputElements(Tail(results))
         ELSE InputElements(Tail(results))

RECURSIVE WithoutStripped(_)
\* a sequence of elements without Info, Void and Unknown
WithoutStripped(elements) ==
    IF elements = <<>> THEN <<>>
    ELSE IF Head(elements) \in StrippedElements
         THEN WithoutStripped(Tail(elements))
         ELSE <<Head(elements)>> \o WithoutStripped(Tail(elements))

RECURSIVE OutputElements(_)
\* the elements encoded in the byte views of a sequence of chunks
OutputElements(chunks) ==
    IF chunks = <<>> THEN <<>>
    ELSE Chunk_as_ref(Head(chunks)) \o OutputElements(Tail(chunks))

\* the kinds of the chunks emitted so far
OutKind(i) == out[i].kind

\* the elements the source yielded after the last Cluster among results
RECURSIVE SinceLastCluster(_)
SinceLastCluster(elements) ==
    IF elements = <<>> THEN <<>>
    ELSE IF elements[Len(elements)] = Cluster THEN <<>>
         ELSE SinceLastCluster(SubSeq(elements, 1, Len(elements) - 1))
                  \o <<elements[Len(elements)]>>

\* when the last source result closed a cluster (Cluster, EbmlHead, Segment
\* or end of stream): the elements received for that cluster, after its
\* opening Cluster and before the closing result
ClosedClusterElements ==
    SinceLastCluster(InputElements(SubSeq(events, 1, Len(events) - 1)))

\* poll has just returned a ClusterHead chunk
JustEmittedClusterHead ==
    ret.kind = "Chunk" /\ ret.chunk.kind = "ClusterHead"

----------------------------------------------------------------------------
(* C1: the order of the emitted chunks *)

\* C1 as stated: the emitted chunks begin with exactly one Headers chunk,
\* followed only by (ClusterHead, ClusterBody) pairs in that order; a
\* ClusterBody always has a ClusterHead immediately before it.
C1_OneHeadersThenPairs ==
    /\ out # <<>> => OutKind(1) = "Headers"
    /\ \A i \in 2..Len(out) :
        /\ OutKind(i) # "Headers"
        /\ OutKind(i) = "ClusterBody" => OutKind(i - 1) = "ClusterHead"
        /\ OutKind(i) = "ClusterHead"
               => OutKind(i - 1) \in {"Headers", "ClusterBody"}

\* the number of EbmlHead / Segment events received so far
RestartCount ==
    Cardinality({i \in 1..Len(events) :
        events[i].kind = "Ready" /\ events[i].element \in RestartElements})

\* C1 as amended: the emitted chunks begin with a Headers chunk; a
\* ClusterBody always has a ClusterHead immediately before it, a
\* ClusterHead always has a Headers or a ClusterBody immediately before
\* it, and a ClusterHead is followed by nothing but a ClusterBody; a
\* further Headers chunk comes only directly after a ClusterBody, and
\* there is at most one of them per EbmlHead / Segment event received.
C1_ChunkOrder ==
    /\ out # <<>> => OutKind(1) = "Headers"
    /\ \A i \in 2..Len(out) :
        /\ OutKind(i) = "Headers" => OutKind(i - 1) = "ClusterBody"
        /\ OutKind(i) = "ClusterBody" => OutKind(i - 1) = "ClusterHead"
        /\ OutKind(i) = "ClusterHead"
               => OutKind(i - 1) \in {"Headers", "ClusterBody"}
    /\ Cardinality({i \in 1..Len(out) : OutKind(i) = "Headers"})
           <= 1 + RestartCount

\* C1 witness: a second Headers chunk has been emitted, after the pair of
\* the cluster that a restart closed
C1_Witness ==
    /\ Len(out) = 4
    /\ OutKind(1) = "Headers" /\ OutKind(2) = "ClusterHead"
    /\ OutKind(3) = "ClusterBody" /\ OutKind(4) = "Headers"
    /\ out[4].bytes # <<>>

----------------------------------------------------------------------------
(* C2: end >= start *)

\* C2 as stated: every emitted ClusterHead has end >= start
C2_EndNotBeforeStart ==
    \A i \in 1..Len(out) :
        OutKind(i) = "ClusterHead" => out[i].head.end >= out[i].head.start

----------------------------------------------------------------------------
(* C3: a restart in the middle of a cluster *)

\* the step consumes an EbmlHead or Segment event in BuildingCluster
RestartStep(element) ==
    /\ state.kind = "BuildingCluster"
    /\ element \in RestartElements
    /\ PolledElement(element)

\* what C3 says of such a step: the pending cluster's head is emitted, its
\* body and the restart element (the new header's first) are kept
RestartEmitsHead(element) ==
    /\ out' = Append(out, Chunk_ClusterHead(state.cluster_head))
    /\ ret' = ReturnChunk(Chunk_ClusterHead(state.cluster_head))
    /\ state' = EmittingClusterBodyBeforeNewHeader(state.buffer, <<element>>)

\* what C3 says of the next pull: the pending cluster's body is emitted,
\* without polling the source, and the chunker is back in BuildingHeader
\* with the restart element first in its buffer
RestartEmitsBody ==
    state.kind = "EmittingClusterBodyBeforeNewHeader" =>
        /\ out' = Append(out, Chunk_ClusterBody(state.buffer))
        /\ ret' = ReturnChunk(Chunk_ClusterBody(state.buffer))
        /\ events' = events
        /\ state' = BuildingHeader(state.new_header)
        /\ Head(state.new_header) = LastEvent.element
        /\ LastEvent.element \in RestartElements

\* C3 as stated: when an EbmlHead or Segment event arrives in
\* BuildingCluster, the pending cluster's ClusterHead and then its
\* ClusterBody are emitted before any new Headers chunk, and the chunker
\* resumes in BuildingHeader with the restart element first in its header
\* buffer.
C3_RestartFlushesCluster ==
    [][ /\ \A element \in RestartElements :
              RestartStep(element) => RestartEmitsHead(element)
        /\ RestartEmitsBody ]_vars

\* C3 as amended: the same, when encoding the restart element into the
\* fresh header buffer succeeds, which it does unless the soft limit is 0;
\* with a soft limit of 0 the pull returns Err(ResourcesExceeded), nothing
\* is emitted (the pending cluster is dropped) and the chunker is in End.
C3_RestartFlushesClusterUnlessLimitZero ==
    [][ /\ \A element \in RestartElements :
              RestartStep(element) =>
                  IF buffer_size_limit = Some(0)
                  THEN /\ ret' = ReturnErr("ResourcesExceeded")
                       /\ state' = End
                       /\ out' = out
                  ELSE RestartEmitsHead(element)
        /\ RestartEmitsBody ]_vars

\* C3 witness: after a restart the cluster's head and body were emitted
\* and the chunker is in BuildingHeader with the restart element buffered
C3_Witness ==
    /\ state.kind = "BuildingHeader"
    /\ state.buffer = <<Segment>>
    /\ LastEvent = Ready(Segment)
    /\ Len(out) = 3
    /\ OutKind(2) = "ClusterHead" /\ OutKind(3) = "ClusterBody"
    /\ out[3].bytes # <<>>

----------------------------------------------------------------------------
(* C4: end of input during a cluster *)

\* C4: when the source returns Ready(None) in BuildingCluster, the pull
\* emits the pending cluster's ClusterHead; the next pull emits its
\* ClusterBody without polling the source and reaches End; from End every
\* pull returns Ready(None), emits nothing and does not poll the source.
C4_FinalClusterThenEnd ==
    [][ /\ (state.kind = "BuildingCluster" /\ Polled(ReadyNone)) =>
              /\ out' = Append(out, Chunk_ClusterHead(state.cluster_head))
              /\ ret' = ReturnChunk(Chunk_ClusterHead(state.cluster_head))
              /\ state' = EmittingFinalClusterBody(state.buffer)
        /\ state.kind = "EmittingFinalClusterBody" =>
              /\ out' = Append(out, Chunk_ClusterBody(state.buffer))
              /\ ret' = ReturnChunk(Chunk_ClusterBody(state.buffer))
              /\ events' = events
              /\ state' = End
        /\ state.kind = "End" =>
              /\ ret' = ReturnNone
              /\ out' = out
              /\ events' = events
              /\ state' = End ]_vars

\* C4 witness: the source ended during a cluster, the final pair was
\* emitted and a later pull returned Ready(None) from End
C4_Witness ==
    /\ state = End
    /\ ret = ReturnNone
    /\ LastEvent = ReadyNone
    /\ Len(out) = 3
    /\ OutKind(2) = "ClusterHead" /\ OutKind(3) = "ClusterBody"
    /\ out[3].bytes # <<>>

----------------------------------------------------------------------------
(* C5: one element larger than the soft limit, in BuildingHeader *)

\* the elements the BuildingHeader arm encodes into the header buffer
HeaderElements == Elements \ (StrippedElements \cup {Cluster})

\* the step consumes, in BuildingHeader with less than the soft limit
\* buffered, a non-stripped element whose encoding is larger than the limit
OversizedHeaderStep(element) ==
    /\ state.kind = "BuildingHeader"
    /\ buffer_size_limit.some
    /\ BufferLen(state.buffer) < buffer_size_limit.value
    /\ element \notin StrippedElements
    /\ EncodedSize(element) > buffer_size_limit.value
    /\ PolledElement(element)

\* from End every pull returns Ready(None) and emits nothing
EndReturnsNone ==
    state.kind = "End" => ret' = ReturnNone /\ out' = out /\ state' = End

----------------------------------------------------------------------------
(* C6: a failing encode *)

\* the soft limit is set and the buffer has reached it
AtLimit(buffer) ==
    buffer_size_limit.some /\ buffer_size_limit.value <= BufferLen(buffer)

\* the step consumes an element whose encode fails: in BuildingHeader any
\* encoded element, in BuildingCluster a SimpleBlock or other element, or
\* the restart element (encoded into an empty buffer)
EncodeFailsStep(element) ==
    /\ PolledElement(element)
    /\ state'.kind # "Panicked"
    /\ \/ /\ state.kind = "BuildingHeader"
          /\ element \in HeaderElements
          /\ AtLimit(state.buffer)
       \/ /\ state.kind = "BuildingCluster"
          /\ element \in SimpleBlocks \cup {Tracks}
          /\ AtLimit(state.buffer)
       \/ /\ state.kind = "BuildingCluster"
          /\ element \in RestartElements
          /\ AtLimit(<<>>)

\* C6: when an encode fails, the pull returns Err(ResourcesExceeded), the
\* state becomes End and no chunk is emitted; from End no chunk is ever
\* emitted, the source is not polled and every pull returns Ready(None).
C6_EncodeFailureEndsStream ==
    [][ /\ \A element \in Elements :
              EncodeFailsStep(element) =>
                  /\ ret' = ReturnErr("ResourcesExceeded")
                  /\ state' = End
                  /\ out' = out
        /\ state.kind = "End" =>
              /\ ret' = ReturnNone
              /\ out' = out
              /\ events' = events
              /\ state' = End ]_vars

\* C6 witness: a SimpleBlock failed to encode into a cluster body that
\* held data; the cluster was never emitted and a later pull returned
\* Ready(None)
C6_Witness ==
    /\ state = End
    /\ ret = ReturnNone
    /\ buffer_size_limit = Some(SoftLimit)
    /\ Len(events) = 3
    /\ events[1] = Ready(Cluster)
    /\ events[2] = Ready(Tracks)
    /\ events[3].element \in SimpleBlocks
    /\ Len(out) = 1

----------------------------------------------------------------------------
(* C7: end of input in BuildingHeader *)

\* C7: when the source returns Ready(None) in BuildingHeader, the pull
\* returns Ready(None), emits nothing, and leaves the state (BuildingHeader
\* and its buffer) as it was.
C7_HeaderNotFlushedAtEnd ==
    [][ (state.kind = "BuildingHeader" /\ Polled(ReadyNone)) =>
            /\ ret' = ReturnNone
            /\ out' = out
            /\ state' = state ]_vars

\* C7 witness: header elements were buffered, the source ended, and the
\* chunker returned Ready(None) with nothing ever emitted
C7_Witness ==
    /\ state = BuildingHeader(<<EbmlHead, Segment, Tracks>>)
    /\ LastEvent = ReadyNone
    /\ ret = ReturnNone
    /\ out = <<>>

----------------------------------------------------------------------------
(* C8: round trip of the elements *)

\* the source ended without an error and poll returned Ready(None): the
\* chunker did not fail (it polls no more after an error of its own)
Completed ==
    /\ ret = ReturnNone
    /\ SourceEnded
    /\ \A i \in 1..Len(events) : events[i] # SourceErr

\* the input with Info, Void and Unknown removed
ExpectedElements == WithoutStripped(InputElements(events))

\* C8 as stated: for every input processed without error until the end of
\* the stream, the elements in the emitted chunks' byte views, in emission
\* order, are the input's elements without Info, Void and Unknown.
C8_RoundTrip ==
    Completed => OutputElements(out) = ExpectedElements

RECURSIVE RoundTripInput(_, _)
\* the inputs the round trip holds for, read left to right; mode is
\* "empty" (no header element pending), "header" (header elements
\* pending), "opened" (a Cluster just arrived) or "cluster" (that cluster's
\* Timecode has arrived): every Cluster is directly followed by a Timecode,
\* a cluster holds no other Timecode, and the input does not end with
\* header elements pending or with a Cluster that has no Timecode
RoundTripInput(elements, mode) ==
    IF elements = <<>> THEN mode \in {"empty", "cluster"}
    ELSE LET element == Head(elements)
             rest == Tail(elements)
         IN  CASE mode \in {"empty", "header"} ->
                    IF element = Cluster THEN RoundTripInput(rest, "opened")
                    ELSE RoundTripInput(rest, "header")
               [] mode = "opened" ->
                    /\ element.kind = "Timecode"
                    /\ RoundTripInput(rest, "cluster")
               [] mode = "cluster" ->
                    CASE element.kind = "Timecode" -> FALSE
                      [] element = Cluster -> RoundTripInput(rest, "opened")
                      [] element \in RestartElements ->
                            RoundTripInput(rest, "header")
                      [] OTHER -> RoundTripInput(rest, "cluster")

\* C8 as amended: the round trip holds for every input, processed without
\* error until the end of the stream, in which (Info, Void and Unknown
\* aside) every Cluster is directly followed by a Timecode, no cluster
\* holds another Timecode, and every header element is followed by a later
\* Cluster.
C8_RoundTripOfWellFormedInput ==
    (Completed /\ RoundTripInput(ExpectedElements, "empty"))
        => OutputElements(out) = ExpectedElements

\* C8 witness: a cluster with its Timecode and a stripped element went
\* through to the end of the stream
C8_Witness ==
    /\ Completed
    /\ RoundTripInput(ExpectedElements, "empty")
    /\ state = End
    /\ Len(ExpectedElements) = 2
    /\ Len(InputElements(events)) = 3
    /\ Len(out) = 3
    /\ OutputElements(out) = ExpectedElements

----------------------------------------------------------------------------
(* C9: start and end of a cluster of Timecode, SimpleBlock... *)

\* the elements of the closed cluster are a Timecode, then only
\* SimpleBlocks with timecodes >= 0
TimecodeThenBlocks(elements) ==
    /\ elements # <<>>
    /\ elements[1].kind = "Timecode"
    /\ \A i \in 2..Len(elements) :
        elements[i].kind = "SimpleBlock" /\ elements[i].timecode >= 0

RECURSIVE LastDelta(_, _)
\* the timecode of the last SimpleBlock in elements with timecode > 0 and
\* timecode <= most; 0 if there is none
LastDelta(elements, most) ==
    IF elements = <<>> THEN 0
    ELSE LET last == elements[Len(elements)]
         IN  IF /\ last.kind = "SimpleBlock"
                /\ last.timecode > 0
                /\ last.timecode <= most
             THEN last.timecode
             ELSE LastDelta(SubSeq(elements, 1, Len(elements) - 1), most)

\* some SimpleBlock in elements has the keyframe bit 0x80 in its flags
HasKeyframeBlock(elements) ==
    \E i \in 1..Len(elements) :
        /\ elements[i].kind = "SimpleBlock"
        /\ (elements[i].flags \div 128) % 2 = 1

----------------------------------------------------------------------------
(* C10: the keyframe flag of a cluster *)

----------------------------------------------------------------------------
(* C11: NotReady and Err from the source are passed through *)

\* the step is a poll of the source made in BuildingHeader or BuildingCluster
\* that gets result
BuildingPolled(result) ==
    /\ state.kind \in {"BuildingHeader", "BuildingCluster"}
    /\ Polled(result)

\* C11: when the source returns NotReady or an error in BuildingHeader or
\* BuildingCluster, poll returns NotReady or that error, and the state
\* (header buffer, cluster head, body buffer) and the emitted chunks are
\* unchanged; poll returns NotReady only in a step in which the source
\* returned NotReady.
C11_SourcePassThrough ==
    [][ /\ BuildingPolled(NotReady)
            => (ret' = ReturnNotReady /\ state' = state /\ out' = out)
        /\ BuildingPolled(SourceErr)
            => (ret' = ReturnErr("Source") /\ state' = state /\ out' = out)
        /\ ret'.kind = "NotReady" => Polled(NotReady)
      ]_vars

\* a cluster with a keyframe block buffered, the source then not ready, and
\* the body completed and emitted by later polls
C11_Witness ==
    /\ Len(events) = 4
    /\ events[1] = Ready(Cluster)
    /\ events[2] = Ready(SimpleBlock(128, 0))
    /\ events[3] = NotReady
    /\ events[4] = ReadyNone
    /\ Len(out) = 3
    /\ out[2].kind = "ClusterHead"
    /\ out[2].head.keyframe
    /\ Chunk_as_ref(out[3]) = <<SimpleBlock(128, 0)>>

----------------------------------------------------------------------------
(* The relay's channel registry (src/commands/relay.rs, run)               *)
(*                                                                         *)
(* Each request runs the channel filter: it locks channel_map, looks its   *)
(* name up with entry, creates the Channel with or_insert_with when the    *)
(* entry is vacant, and releases the lock at the end of the statement with *)
(* a strong handle in hand.  The HEAD, GET and POST/PUT routes all take    *)
(* their handle from this filter and drop it when they are done with it.   *)
(* channel_map holds weak references only: an entry whose Channel has no   *)
(* strong handle left is expired, and entry treats it as vacant.           *)

\* the strong handles (Handle = Arc<Mutex<Channel>>) to channel
StrongCount(channel) ==
    Cardinality({r \in Requests : requests[r].channel = channel})

\* the Channel the entry of name upgrades to, NoChannel when the entry is
\* absent or expired
Upgrade(name) ==
    IF channel_map[name] # NoChannel /\ StrongCount(channel_map[name]) > 0
    THEN channel_map[name]
    ELSE NoChannel

\* lock_channel_map, but without waiting for the Mutex
lock_channel_map_unguarded(r, name) ==
    /\ requests[r].pc = "idle"
    /\ channel_map_lock' = r
    /\ requests' = [requests EXCEPT ![r] = [pc |-> "locked", name |-> name,
                                            channel |-> NoChannel]]
    /\ UNCHANGED <<channel_map, channels>>
    /\ UNCHANGED vars

\* channel_map.lock().unwrap(): a request for name gets the Mutex
lock_channel_map(r, name) ==
    /\ requests[r].pc = "idle"
    /\ channel_map_lock = NoRequest
    /\ channel_map_lock' = r
    /\ requests' = [requests EXCEPT ![r] = [pc |-> "locked", name |-> name,
                                            channel |-> NoChannel]]
    /\ UNCHANGED <<channel_map, channels>>
    /\ UNCHANGED vars

\* .entry(name) finds a live Channel: the request takes a strong handle
entry_occupied(r) ==
    /\ requests[r].pc = "locked"
    /\ Upgrade(requests[r].name) # NoChannel
    /\ requests' = [requests EXCEPT ![r].pc = "got",
                                    ![r].channel = Upgrade(requests[r].name)]
    /\ UNCHANGED <<channel_map, channel_map_lock, channels>>
    /\ UNCHANGED vars

\* .entry(name) finds no entry, or an expired one
entry_vacant(r) ==
    /\ requests[r].pc = "locked"
    /\ Upgrade(requests[r].name) = NoChannel
    /\ requests' = [requests EXCEPT ![r].pc = "vacant"]
    /\ UNCHANGED <<channel_map, channel_map_lock, channels>>
    /\ UNCHANGED vars

\* .or_insert_with(|| Channel::new(name)) on a vacant entry: a new Channel,
\* a weak reference to it in channel_map, the strong handle to the request
or_insert_with(r) ==
    /\ requests[r].pc = "vacant"
    /\ Len(channels) < MaxChannels
    /\ channels' = Append(channels, requests[r].name)
    /\ channel_map' = [channel_map EXCEPT ![requests[r].name] = Len(channels) + 1]
    /\ requests' = [requests EXCEPT ![r].pc = "got",
                                    ![r].channel = Len(channels) + 1]
    /\ UNCHANGED channel_map_lock
    /\ UNCHANGED vars

\* the end of the statement: the MutexGuard is dropped
unlock_channel_map(r) ==
    /\ requests[r].pc = "got"
    /\ channel_map_lock' = NoRequest
    /\ requests' = [requests EXCEPT ![r].pc = "holding"]
    /\ UNCHANGED <<channel_map, channels>>
    /\ UNCHANGED vars

\* the request is done with its handle (HEAD at once, GET and POST/PUT when
\* their Listener or Transmitter goes) and the slot serves a new request
drop_channel(r) ==
    /\ requests[r].pc = "holding"
    /\ requests' = [requests EXCEPT ![r] = Idle]
    /\ UNCHANGED <<channel_map, channel_map_lock, channels>>
    /\ UNCHANGED vars

RelayNext ==
    \/ \E r \in Requests, name \in ChannelNames : lock_channel_map(r, name)
    \/ \E r \in Requests : entry_occupied(r)
    \/ \E r \in Requests : entry_vacant(r)
    \/ \E r \in Requests : or_insert_with(r)
    \/ \E r \in Requests : unlock_channel_map(r)
    \/ \E r \in Requests : drop_channel(r)

RelaySpec == Init /\ [][RelayNext]_relay_vars

----------------------------------------------------------------------------
(* C12: one live Channel for a name *)

\* the requests that hold a strong handle
Holders == {r \in Requests : requests[r].channel # NoChannel}

\* the Channels with a strong handle
LiveChannels == {requests[r].channel : r \in Holders}

\* the step gives request r a handle
ObtainsHandle(r) ==
    requests[r].channel = NoChannel /\ requests'[r].channel # NoChannel

\* C12: for every interleaving of the requests, the requests that hold a
\* strong handle for the same name at the same time hold the same Channel
\* (no two live Channels have the same name, and the registry's entry for
\* the name is that Channel); and an entry is gone once no request holds a
\* handle to its Channel: a request for a name nobody holds gets a Channel
\* created for it, never an earlier one.
C12_OneLiveChannelPerName ==
    /\ [](\A r1, r2 \in Holders :
            requests[r1].name = requests[r2].name
                => requests[r1].channel = requests[r2].channel)
    /\ [](\A c1, c2 \in LiveChannels :
            channels[c1] = channels[c2] => c1 = c2)
    /\ [](\A r \in Holders :
            /\ channels[requests[r].channel] = requests[r].name
            /\ channel_map[requests[r].name] = requests[r].channel)
    /\ [][\A r \in Requests :
            ObtainsHandle(r) =>
                IF \E h \in Holders : requests[h].name = requests[r].name
                THEN \E h \in Holders :
                        /\ requests[h].name = requests[r].name
                        /\ requests'[r].channel = requests[h].channel
                ELSE requests'[r].channel = Len(channels) + 1
       ]_relay_vars

\* two requests hold the same Channel "a" at the same time, after an
\* earlier Channel "a" was dropped by its last holder and its entry expired
C12_Witness ==
    /\ Len(channels) = 2
    /\ channels[1] = "a"
    /\ channels[2] = "a"
    /\ \E r1, r2 \in Requests :
        /\ r1 # r2
        /\ requests[r1] = [pc |-> "holding", name |-> "a", channel |-> 2]
        /\ requests[r2] = [pc |-> "holding", name |-> "a", channel |-> 2]

----------------------------------------------------------------------------
(* C13: the scratch of a ClusterHead is large enough *)

\* bytes: [u8;16]
ScratchSize == 16

\* the ClusterHeads of the state: the one being built and the emitted ones
ClusterHeads ==
    (IF state.kind = "BuildingCluster" THEN {state.cluster_head} ELSE {})
        \cup {out[i].head : i \in {j \in 1..Len(out) : OutKind(j) = "ClusterHead"}}

\* poll has just panicked in ClusterHead::update_timecode
PanickedInUpdateTimecode ==
    /\ ret = ReturnPanic
    /\ LastEvent.kind = "Ready"
    /\ LastEvent.element.kind = "Timecode"

\* C13 as stated: for every u64 timecode, u64::MAX included, ClusterHead::new
\* and ClusterHead::update_timecode return without panicking, and bytes_used
\* is at most 16 in every reachable ClusterHead.
C13_NoPanicAndScratchFits ==
    /\ ~PanickedInUpdateTimecode
    /\ \A cluster_head \in ClusterHeads : cluster_head.bytes_used <= ScratchSize

----------------------------------------------------------------------------
(* C14: which SimpleBlock timecodes extend end *)

\* the step is BuildingCluster's SimpleBlock arm for block, and the chunker
\* stays in BuildingCluster
ObservedSimpleBlock(block) ==
    /\ state.kind = "BuildingCluster"
    /\ PolledElement(block)
    /\ state'.kind = "BuildingCluster"

\* C14 as stated: a SimpleBlock with cluster-relative timecode d changes end
\* only if d > 0, and then end becomes start + d (modulo 2^64); for every
\* d <= 0, whatever start is, end is left unchanged.
C14_EndExtendedOnlyByPositiveDelta ==
    [][\A block \in SimpleBlocks :
          ObservedSimpleBlock(block) =>
              /\ state'.cluster_head.start = state.cluster_head.start
              /\ state'.cluster_head.end =
                    IF block.timecode > 0
                    THEN AddU64(state.cluster_head.start, block.timecode)
                    ELSE state.cluster_head.end
      ]_vars

----------------------------------------------------------------------------
(* C15: the soft limit *)

\* the size of the largest element the source yields
MaxEncodedSize ==
    CHOOSE size \in {EncodedSize(element) : element \in Elements} :
        \A element \in Elements : EncodedSize(element) <= size

\* the elements the arms of state.kind encode into state.buffer
EncodedIntoBuffer ==
    IF state.kind = "BuildingHeader"
    THEN Elements \ (StrippedElements \cup {Cluster})
    ELSE IF state.kind = "BuildingCluster"
    THEN SimpleBlocks \cup {Tracks}
    ELSE {}

\* an encode into a buffer of length len is let through by the limit
BelowLimit(len) ==
    ~buffer_size_limit.some \/ len < buffer_size_limit.value

\* the step encodes an element into the header or the body buffer: it
\* succeeds iff the buffer was below the limit
EncodeIntoBufferStep ==
    \A element \in EncodedIntoBuffer :
        (PolledElement(element) /\ state' # Panicked) =>
            IF BelowLimit(BufferLen(state.buffer))
            THEN /\ state'.kind = state.kind
                 /\ state'.buffer = Append(state.buffer, element)
                 /\ ret' = Continue
            ELSE ret' = ReturnErr("ResourcesExceeded")

\* the step encodes an EbmlHead or Segment that restarts the input into a
\* new, empty header buffer: it succeeds iff 0 is below the limit
EncodeIntoNewHeaderStep ==
    \A element \in RestartElements :
        (state.kind = "BuildingCluster" /\ PolledElement(element)) =>
            IF BelowLimit(0)
            THEN /\ state'.new_header = <<element>>
                 /\ state'.buffer = state.buffer
            ELSE ret' = ReturnErr("ResourcesExceeded")

\* C15: with a soft limit L, an encode into the header buffer or the body
\* buffer succeeds iff the buffer is shorter than L before the encode, and
\* otherwise fails with ResourcesExceeded leaving the buffer as it was; so
\* every buffer of a reachable state is shorter than L plus the size of the
\* largest element; with no limit poll never returns ResourcesExceeded.
C15_SoftLimit ==
    /\ [][EncodeIntoBufferStep /\ EncodeIntoNewHeaderStep]_vars
    /\ [](\A element \in Elements :
            LET encoded == encode(element, state.buffer, buffer_size_limit)
            IN  /\ encoded.ok <=> BelowLimit(BufferLen(state.buffer))
                /\ ~encoded.ok => encoded.buffer = state.buffer)
    /\ [](buffer_size_limit.some =>
            /\ BufferLen(state.buffer)
                  < buffer_size_limit.value + MaxEncodedSize
            /\ BufferLen(state.new_header)
                  < buffer_size_limit.value + MaxEncodedSize)
    /\ [](~buffer_size_limit.some => ret.error # "ResourcesExceeded")

\* a header buffer of exactly SoftLimit bytes refuses the next element
C15_Witness ==
    /\ buffer_size_limit = Some(SoftLimit)
    /\ Len(events) = 3
    /\ out = <<>>
    /\ BufferLen(InputElements(SubSeq(events, 1, 2))) = SoftLimit
    /\ ret = ReturnErr("ResourcesExceeded")
    /\ state = End

----------------------------------------------------------------------------
(* C16: the ClusterBody follows its ClusterHead *)

EmittingStates ==
    {"EmittingClusterBody", "EmittingClusterBodyBeforeNewHeader",
     "EmittingFinalClusterBody"}

RECURSIVE BodyElements(_)
\* a cluster's elements without Info, Void, Unknown and Timecode
BodyElements(elements) ==
    IF elements = <<>> THEN <<>>
    ELSE IF Head(elements) \in StrippedElements
              \/ Head(elements).kind = "Timecode"
         THEN BodyElements(Tail(elements))
         ELSE <<Head(elements)>> \o BodyElements(Tail(elements))

\* C16: the pull after the one that returned a ClusterHead returns the
\* ClusterBody of the same cluster: after a ClusterHead the chunker is in
\* an emitting state whose buffer holds exactly the cluster's elements
\* other than Info, Void, Unknown and Timecode, in arrival order; a step
\* in an emitting state does not poll the source and returns that buffer
\* as a ClusterBody chunk (never NotReady or Err); and a ClusterBody is
\* only ever returned right after a ClusterHead.
C16_BodyFollowsHead ==
    /\ [](JustEmittedClusterHead =>
            /\ state.kind \in EmittingStates
            /\ state.buffer = BodyElements(ClosedClusterElements))
    /\ [][state.kind \in EmittingStates =>
            /\ events' = events
            /\ ret' = ReturnChunk(Chunk_ClusterBody(state.buffer))
            /\ out' = Append(out, Chunk_ClusterBody(state.buffer))
            /\ state'.kind \notin EmittingStates
       ]_vars
    /\ [][(out' # out /\ ret'.chunk.kind = "ClusterBody") =>
            JustEmittedClusterHead
       ]_vars

\* a cluster of a Timecode and a block, closed by the end of the stream:
\* the pull after its ClusterHead returns a body of the block alone
C16_Witness ==
    /\ Len(events) = 4
    /\ events[1] = Ready(Cluster)
    /\ events[2].element.kind = "Timecode"
    /\ events[3].element.kind = "SimpleBlock"
    /\ events[4] = ReadyNone
    /\ Len(out) = 3
    /\ OutKind(2) = "ClusterHead"
    /\ out[3] = Chunk_ClusterBody(<<events[3].element>>)
    /\ ret = ReturnChunk(out[3])

----------------------------------------------------------------------------
(* C17: the start of an emitted ClusterHead *)

\* the values of the Timecode events among elements
TimecodesOf(elements) ==
    {elements[i].timecode :
        i \in {j \in 1..Len(elements) : elements[j].kind = "Timecode"}}

RECURSIVE LastTimecode(_)
\* the value of the last Timecode event among elements, 0 when there is none
LastTimecode(elements) ==
    IF elements = <<>> THEN 0
    ELSE IF elements[Len(elements)].kind = "Timecode"
         THEN elements[Len(elements)].timecode
         ELSE LastTimecode(SubSeq(elements, 1, Len(elements) - 1))

\* C17 as stated: the placeholder start = 0 of ClusterHead::new(0) is never
\* observable: the start of every emitted ClusterHead is the value of a
\* Timecode event received within that cluster, for every input sequence.
C17_StartIsAReceivedTimecode ==
    JustEmittedClusterHead =>
        ret.chunk.head.start \in TimecodesOf(ClosedClusterElements)

\* C17, amended: the start of every emitted ClusterHead is the value of the
\* last Timecode event received within that cluster, and the placeholder 0
\* when the cluster had no Timecode event.
C17_StartIsLastTimecodeOrPlaceholder ==
    JustEmittedClusterHead =>
        ret.chunk.head.start = LastTimecode(ClosedClusterElements)

\* a ClusterHead whose cluster had two Timecode events: start is the second
C17_Witness ==
    /\ JustEmittedClusterHead
    /\ Len(ClosedClusterElements) = 2
    /\ ClosedClusterElements[1] = Timecode(U64Max)
    /\ ClosedClusterElements[2] = Timecode(1)
    /\ ret.chunk.head.start = 1

----------------------------------------------------------------------------
(* C18: the scratch bytes of a ClusterHead encode its start *)

\* C18: in every reachable state, the byte view of the ClusterHead being
\* built and of every emitted ClusterHead chunk is the encoding of a Cluster
\* marker followed by Timecode(start) for the head's start, bytes_used being
\* its length: start never changes without the scratch being written again.
C18_ScratchEncodesStart ==
    /\ \A cluster_head \in ClusterHeads :
        /\ ClusterHead_as_ref(cluster_head)
              = <<Cluster, Timecode(cluster_head.start)>>
        /\ cluster_head.bytes_used
              = EncodedSize(Cluster) + EncodedSize(Timecode(cluster_head.start))
    /\ \A i \in 1..Len(out) :
        OutKind(i) = "ClusterHead" =>
            Chunk_as_ref(out[i]) = <<Cluster, Timecode(out[i].head.start)>>

\* a ClusterHead emitted after two Timecode events: its byte view carries
\* the second one
C18_Witness ==
    /\ JustEmittedClusterHead
    /\ ClosedClusterElements = <<Timecode(1), Timecode(U64Max)>>
    /\ Chunk_as_ref(ret.chunk) = <<Cluster, Timecode(U64Max)>>
    /\ ret.chunk.head.bytes_used = 15

----------------------------------------------------------------------------
(* C19: termination *)

\* The consumer of the stream keeps polling a chunker that has a chunk or
\* the end of the stream to return: a step of EmittingFinalClusterBody or
\* End that can be made is eventually made.  The source, and the pulls that
\* wait for it, are under no fairness.
LiveSpec ==
    Init /\ [][Next]_vars /\ WF_vars(EmitFinalClusterBody) /\ WF_vars(Ended)

\* C19: an iteration of poll's loop consumes at most one source event, and
\* the loop goes round again only after an iteration that consumed an event
\* and emitted nothing, so a pull returns after finitely many events of a
\* finite source; once the source has returned Ready(None), repeated pulls
\* emit at most one more chunk each and eventually return Ready(None); a
\* source that ends within a cluster takes the chunker through
\* EmittingFinalClusterBody to End.
C19_Termination ==
    /\ [][ /\ Len(events') <= Len(events) + 1
           /\ ret'.kind = "Continue" =>
                (Len(events') = Len(events) + 1 /\ out' = out)
           /\ (state.kind = "BuildingCluster" /\ Polled(ReadyNone)) =>
                state'.kind = "EmittingFinalClusterBody"
           /\ state.kind = "EmittingFinalClusterBody" => state' = End
           /\ SourceEnded =>
                (Len(out') <= Len(out) + 1 /\ ret'.kind # "Continue")
         ]_vars
    /\ (SourceEnded ~> ret = ReturnNone)

\* the source ended within a cluster that had received a Timecode and a
\* keyframe block; the chunker went through EmittingFinalClusterBody and
\* then returned Ready(None)
C19_Witness ==
    /\ Len(events) = 4
    /\ events[2].element.kind = "Timecode"
    /\ events[3] = Ready(SimpleBlock(128, 0))
    /\ events[4] = ReadyNone
    /\ Len(out) = 3
    /\ OutKind(3) = "ClusterBody"
    /\ state = End
    /\ ret = ReturnNone

----------------------------------------------------------------------------
(* C20: a Timecode event keeps the cluster's duration *)

\* C20 as stated: a Timecode(t) event in BuildingCluster leaves the chunker
\* in BuildingCluster with start = t and end = t + (old end - old start),
\* keyframe and the body buffer unchanged: end is shifted together with
\* start, the cluster's duration is preserved.
C20_TimecodeKeepsDuration ==
    [][\A timecode \in TimecodeValues :
          (state.kind = "BuildingCluster" /\ PolledElement(Timecode(timecode)))
              => /\ state'.kind = "BuildingCluster"
                 /\ state'.cluster_head.start = timecode
                 /\ state'.cluster_head.end =
                       timecode
                         + (state.cluster_head.end - state.cluster_head.start)
                 /\ state'.cluster_head.keyframe = state.cluster_head.keyframe
                 /\ state'.buffer = state.buffer
      ]_vars

============================================================================
